---- MODULE Spec2Model ----
(***************************************************************************)
(* Model of the APIC register abstraction (linuiz-project/apic).           *)
(*                                                                         *)
(* Register words are modelled bit-exactly as the set of their set bit     *)
(* positions: a u32 is a subset of 0..31, a u64 a subset of 0..63.  An     *)
(* Option<T> is the empty set (None) or a singleton (Some).                *)
(***************************************************************************)
EXTENDS Integers, FiniteSets, Sequences, TLC

\* ------------------------------------------------------------------------
\* Bounds of the model
\* ------------------------------------------------------------------------

\* Number of bit positions from which the sampled 32-bit APIC ids are built.
MaxIdBits == 2

\* Bit positions used to build sampled ids, most significant cases first.
IdBitPositions == <<31, 0, 18, 8, 14>>

\* The sampled 32-bit destination ids (as words).
Ids == SUBSET {IdBitPositions[i] : i \in 1..MaxIdBits}

\* ------------------------------------------------------------------------
\* Words and the bit_field primitives used by the source
\* ------------------------------------------------------------------------

RECURSIVE Pow2(_)
Pow2(n) == IF n = 0 THEN 1 ELSE 2 * Pow2(n - 1)

\* The word holding the unsigned number n (n < 2^31).
U32From(n) == {i \in 0..30 : (n \div Pow2(i)) % 2 = 1}

\* word.set_bits(lo..hi, value): replace bits lo..hi-1 by the low bits of value.
set_bits(word, lo, hi, value) ==
    (word \ (lo..(hi - 1))) \cup {i + lo : i \in {j \in value : j < hi - lo}}

\* word.set_bit(bit, value)
set_bit(word, bit, value) ==
    IF value THEN word \cup {bit} ELSE word \ {bit}

\* word.get_bits(lo..hi)
get_bits(word, lo, hi) == {i - lo : i \in {j \in word : j >= lo /\ j < hi}}

\* word.get_bit(bit)
get_bit(word, bit) == bit \in word

\* ------------------------------------------------------------------------
\* interrupt_command.rs: the enumerations and their conversions
\* ------------------------------------------------------------------------

InterruptDeliveryMode ==
    {"Fixed", "LowPriority", "SystemManagement", "NonMaskable", "Init", "StartUp", "External"}

InterruptDestinationMode == {"Physical", "Logical"}

InterruptTriggerMode == {"Edge", "Level"}

InterruptAssertMode == {"Deassert", "Assert"}

Processor(id) == [kind |-> "Processor", id |-> id]
OnlySelf == [kind |-> "OnlySelf"]
AllIncludingSelf == [kind |-> "AllIncludingSelf"]
AllExclusingSelf == [kind |-> "AllExclusingSelf"]

InterruptDestination ==
    {Processor(id) : id \in Ids} \cup {OnlySelf, AllIncludingSelf, AllExclusingSelf}

\* Mutant: Init and StartUp codes exchanged.
U32FromDeliveryModeSwapped(value) ==
    CASE value = "Fixed" -> U32From(0)
      [] value = "LowPriority" -> U32From(1)
      [] value = "SystemManagement" -> U32From(2)
      [] value = "NonMaskable" -> U32From(4)
      [] value = "Init" -> U32From(6)
      [] value = "StartUp" -> U32From(5)
      [] value = "External" -> U32From(7)

\* impl From<InterruptDeliveryMode> for u32
U32FromDeliveryMode(value) ==
    CASE value = "Fixed" -> U32From(0)
      [] value = "LowPriority" -> U32From(1)
      [] value = "SystemManagement" -> U32From(2)
      [] value = "NonMaskable" -> U32From(4)
      [] value = "Init" -> U32From(5)
      [] value = "StartUp" -> U32From(6)
      [] value = "External" -> U32From(7)

\* impl From<InterruptDestinationMode> for bool
BoolFromDestinationMode(value) ==
    CASE value = "Physical" -> FALSE
      [] value = "Logical" -> TRUE

\* impl From<InterruptTriggerMode> for bool
BoolFromTriggerMode(value) ==
    CASE value = "Edge" -> FALSE
      [] value = "Level" -> TRUE

\* impl From<InterruptAssertMode> for bool
BoolFromAssertMode(value) ==
    CASE value = "Deassert" -> FALSE
      [] value = "Assert" -> TRUE

\* NonZeroU8::new(vector): None for 0, Some(vector) otherwise.
NonZeroU8New(vector) == IF vector = 0 THEN {} ELSE {vector}

\* The values of Option<NonZeroU8>.
OptionNonZeroU8 == {{}} \cup {{v} : v \in 1..255}

\* ------------------------------------------------------------------------
\* interrupt_command.rs: InterruptCommand::new
\* ------------------------------------------------------------------------

\* Outcome of a call: a panic (no value) or the returned value.
Panic == [panicked |-> TRUE, value |-> {}]
Return(v) == [panicked |-> FALSE, value |-> {v}]

\* Mutant: the first assertion is missing.
DeassertOnlyWithInitDropped(assert_mode, delivery_mode) == TRUE

\* assert!(assert_mode != Deassert || delivery_mode == Init)
DeassertOnlyWithInit(assert_mode, delivery_mode) ==
    assert_mode # "Deassert" \/ delivery_mode = "Init"

\* assert!(assert_mode != Deassert || trigger_mode == Level)
DeassertOnlyWithLevel(assert_mode, trigger_mode) ==
    assert_mode # "Deassert" \/ trigger_mode = "Level"

\* Mutant: only INIT is checked, a vector passes with SMI.
NoVectorWithSmiOrInitOnlyInit(vector, delivery_mode) ==
    vector = {} \/ delivery_mode # "Init"

\* Mutant: the vector is also required to be present with every other mode.
NoVectorWithSmiOrInitBothWays(vector, delivery_mode) ==
    (vector = {}) <=> (delivery_mode \in {"SystemManagement", "Init"})

\* assert!(vector.is_none() || !matches!(delivery_mode, SystemManagement | Init))
NoVectorWithSmiOrInit(vector, delivery_mode) ==
    vector = {} \/ delivery_mode \notin {"SystemManagement", "Init"}

\* Mutant: the vector is written without clearing the rest of the low half
\* and is shifted by one bit.
LowWithVectorShifted(low, vector) ==
    IF vector # {}
    THEN set_bits(low, 1, 9, U32From(CHOOSE v \in vector : TRUE))
    ELSE low

\* if let Some(vector) = vector { low.set_bits(..8, u32::from(vector.get())); }
LowWithVector(low, vector) ==
    IF vector # {}
    THEN set_bits(low, 0, 8, U32From(CHOOSE v \in vector : TRUE))
    ELSE low

\* The four set_bits / set_bit calls that follow the vector.
LowWithModes(low, delivery_mode, destination_mode, trigger_mode, assert_mode) ==
    LET low1 == set_bits(low, 8, 11, U32FromDeliveryMode(delivery_mode))
        low2 == set_bit(low1, 11, BoolFromDestinationMode(destination_mode))
        low3 == set_bit(low2, 14, BoolFromAssertMode(assert_mode))
        low4 == set_bit(low3, 15, BoolFromTriggerMode(trigger_mode))
    IN  low4

\* Mutant: the Processor arm forgets to store the id.
MatchDestinationNoHigh(destination, assert_mode, high, low) ==
    CASE destination.kind = "Processor" ->
            IF assert_mode = "Deassert" THEN Panic
            ELSE Return([high |-> high, low |-> low])
      [] destination.kind = "OnlySelf" ->
            IF assert_mode = "Deassert" THEN Panic
            ELSE Return([high |-> high, low |-> set_bits(low, 18, 20, U32From(1))])
      [] destination.kind = "AllIncludingSelf" ->
            Return([high |-> high, low |-> set_bits(low, 18, 20, U32From(2))])
      [] destination.kind = "AllExclusingSelf" ->
            IF assert_mode = "Deassert" THEN Panic
            ELSE Return([high |-> high, low |-> set_bits(low, 18, 20, U32From(3))])

\* Mutant: the OnlySelf arm has no assertion.
MatchDestinationSelfUnchecked(destination, assert_mode, high, low) ==
    CASE destination.kind = "Processor" ->
            IF assert_mode = "Deassert" THEN Panic
            ELSE Return([high |-> destination.id, low |-> low])
      [] destination.kind = "OnlySelf" ->
            Return([high |-> high, low |-> set_bits(low, 18, 20, U32From(1))])
      [] destination.kind = "AllIncludingSelf" ->
            Return([high |-> high, low |-> set_bits(low, 18, 20, U32From(2))])
      [] destination.kind = "AllExclusingSelf" ->
            IF assert_mode = "Deassert" THEN Panic
            ELSE Return([high |-> high, low |-> set_bits(low, 18, 20, U32From(3))])

\* Mutant: every arm asserts, AllIncludingSelf included.
MatchDestinationAllChecked(destination, assert_mode, high, low) ==
    IF assert_mode = "Deassert" THEN Panic
    ELSE CASE destination.kind = "Processor" ->
                Return([high |-> destination.id, low |-> low])
           [] destination.kind = "OnlySelf" ->
                Return([high |-> high, low |-> set_bits(low, 18, 20, U32From(1))])
           [] destination.kind = "AllIncludingSelf" ->
                Return([high |-> high, low |-> set_bits(low, 18, 20, U32From(2))])
           [] destination.kind = "AllExclusingSelf" ->
                Return([high |-> high, low |-> set_bits(low, 18, 20, U32From(3))])

\* match destination { ... } followed by Self { high, low }
MatchDestination(destination, assert_mode, high, low) ==
    CASE destination.kind = "Processor" ->
            IF assert_mode = "Deassert" THEN Panic
            ELSE Return([high |-> destination.id, low |-> low])
      [] destination.kind = "OnlySelf" ->
            IF assert_mode = "Deassert" THEN Panic
            ELSE Return([high |-> high, low |-> set_bits(low, 18, 20, U32From(1))])
      [] destination.kind = "AllIncludingSelf" ->
            Return([high |-> high, low |-> set_bits(low, 18, 20, U32From(2))])
      [] destination.kind = "AllExclusingSelf" ->
            IF assert_mode = "Deassert" THEN Panic
            ELSE Return([high |-> high, low |-> set_bits(low, 18, 20, U32From(3))])

\* InterruptCommand::new
InterruptCommand_new(vector, destination, delivery_mode, destination_mode, trigger_mode, assert_mode) ==
    IF ~DeassertOnlyWithInit(assert_mode, delivery_mode) THEN Panic
    ELSE IF ~DeassertOnlyWithLevel(assert_mode, trigger_mode) THEN Panic
    ELSE IF ~NoVectorWithSmiOrInit(vector, delivery_mode) THEN Panic
    ELSE LET high == {}
             low0 == {}
             low1 == LowWithVector(low0, vector)
             low2 == LowWithModes(low1, delivery_mode, destination_mode,
                                  trigger_mode, assert_mode)
         IN  MatchDestination(destination, assert_mode, high, low2)

\* Mutant: new_init sends an edge-triggered INIT.
InterruptCommand_new_init_edge(apic_id) ==
    InterruptCommand_new({}, Processor(apic_id), "Init", "Physical", "Edge", "Assert")

\* InterruptCommand::new_init
InterruptCommand_new_init(apic_id) ==
    InterruptCommand_new({}, Processor(apic_id), "Init", "Physical", "Level", "Assert")

\* Mutant: new_sipi unwraps the NonZeroU8, so vector 0 panics.
InterruptCommand_new_sipi_unwrap(vector, apic_id) ==
    IF vector = 0 THEN Panic
    ELSE InterruptCommand_new(NonZeroU8New(vector), Processor(apic_id), "StartUp",
                              "Physical", "Edge", "Assert")

\* InterruptCommand::new_sipi
InterruptCommand_new_sipi(vector, apic_id) ==
    InterruptCommand_new(NonZeroU8New(vector), Processor(apic_id), "StartUp",
                         "Physical", "Edge", "Assert")

\* ------------------------------------------------------------------------
\* The state machine: one call of a constructor on drawn arguments
\* ------------------------------------------------------------------------

\* pc: "start" before the call, "done" after it returned, "panicked" after a panic
\* call: the function called and its arguments
\* result: Option<InterruptCommand>, the value the call returned
VARIABLES pc, call, result

\* lv: the LocalVector value the caller holds in memory, [kind, raw]
\* tsc_deadline: CPUID.1:ECX bit 24 of the processor
\* msr: the model-specific registers of the local APIC, index -> 64-bit word
\* trace: the hardware transactions of the last x2 operation, in issue order
\* ncalls: number of x2 operations the caller has issued
\* held: Option<ErrorStatus>, the value the caller kept from get_error_status
VARIABLES lv, tsc_deadline, msr, trace, ncalls, held

vars == <<pc, call, result, lv, tsc_deadline, msr, trace, ncalls, held>>

\* x2.rs: enum Register (0x802, 0x803, 0x808, 0x80A, 0x80B, 0x80D, 0x80F, 0x828,
\* 0x802F, 0x830, 0x832 .. 0x839, 0x83E), as decimal numbers.
Register ==
    [ID |-> 2050, VERSION |-> 2051, TASK_PRIORITY |-> 2056,
     PROCESSOR_PRIORITY |-> 2058, END_OF_INTERRUPT |-> 2059,
     LOCAL_DESTINATION |-> 2061, SPURIOUS_VECTOR |-> 2063,
     ERROR_STATUS |-> 2088, CMCI_VECTOR |-> 32815,
     INTERRUPT_COMMAND |-> 2096, TIMER_VECTOR |-> 2098,
     THERMAL_SENSOR_VECTOR |-> 2099, PERFORMANCE_MONITORS_VECTOR |-> 2100,
     LINT0_VECTOR |-> 2101, LINT1_VECTOR |-> 2102, ERROR_VECTOR |-> 2103,
     TIMER_INITIAL_COUNT |-> 2104, TIMER_CURRENT_COUNT |-> 2105,
     TIMER_DIVIDE_CONFIGURATION |-> 2110]

\* The MSR indices the backend can address.
RegisterIndices == {Register[n] : n \in DOMAIN Register}

\* local_vector.rs: the LVT kinds.
Kind == {"Timer", "CMCI", "LINT0", "LINT1", "Error", "PerformanceMonitors", "ThermalSensor"}

\* LocalVector<K>(raw, PhantomData)
LocalVector(kind, raw) == [kind |-> kind, raw |-> raw]

\* The part of the state a constructor call of InterruptCommand never touches:
\* no LocalVector is held, the registers are at zero, nothing was issued.
NoApic ==
    /\ lv = LocalVector("Timer", {})
    /\ tsc_deadline = FALSE
    /\ msr = [r \in RegisterIndices |-> {}]
    /\ trace = << >>
    /\ ncalls = 0
    /\ held = {}

NewCalls ==
    [fn : {"new"}, vector : OptionNonZeroU8, destination : InterruptDestination,
     delivery_mode : InterruptDeliveryMode, destination_mode : InterruptDestinationMode,
     trigger_mode : InterruptTriggerMode, assert_mode : InterruptAssertMode]

NewInitCalls == [fn : {"new_init"}, apic_id : Ids]

NewSipiCalls == [fn : {"new_sipi"}, vector : 0..255, apic_id : Ids]

Init ==
    /\ pc = "start"
    /\ call \in NewCalls \cup NewInitCalls \cup NewSipiCalls
    /\ result = {}
    /\ NoApic

\* The caller receives the outcome of the call.
Finish(outcome) ==
    /\ pc' = IF outcome.panicked THEN "panicked" ELSE "done"
    /\ result' = outcome.value
    /\ UNCHANGED <<call, lv, tsc_deadline, msr, trace, ncalls, held>>

New ==
    /\ pc = "start"
    /\ call.fn = "new"
    /\ Finish(InterruptCommand_new(call.vector, call.destination, call.delivery_mode,
                                   call.destination_mode, call.trigger_mode,
                                   call.assert_mode))

NewInit ==
    /\ pc = "start"
    /\ call.fn = "new_init"
    /\ Finish(InterruptCommand_new_init(call.apic_id))

NewSipi ==
    /\ pc = "start"
    /\ call.fn = "new_sipi"
    /\ Finish(InterruptCommand_new_sipi(call.vector, call.apic_id))

Next == New \/ NewInit \/ NewSipi

Spec == Init /\ [][Next]_vars

\* ------------------------------------------------------------------------
\* The documented ICR layout, used to state the properties
\* ------------------------------------------------------------------------

RECURSIVE ValueOf(_)
\* The unsigned number held by a word (bits below 31 only).
ValueOf(word) ==
    IF word = {} THEN 0
    ELSE LET i == CHOOSE j \in word : TRUE
         IN  Pow2(i) + ValueOf(word \ {i})

\* Documented delivery-mode codes, bits 8-10.
DocDeliveryModeCode(m) ==
    CASE m = "Fixed" -> 0
      [] m = "LowPriority" -> 1
      [] m = "SystemManagement" -> 2
      [] m = "NonMaskable" -> 4
      [] m = "Init" -> 5
      [] m = "StartUp" -> 6
      [] m = "External" -> 7

\* Documented shorthand codes, bits 18-19.
DocShorthandCode(kind) ==
    CASE kind = "Processor" -> 0
      [] kind = "OnlySelf" -> 1
      [] kind = "AllIncludingSelf" -> 2
      [] kind = "AllExclusingSelf" -> 3

\* The four construction rules of section 4.4.
ValidNewCall(c) ==
    /\ c.assert_mode = "Deassert" => c.delivery_mode = "Init"
    /\ c.assert_mode = "Deassert" => c.trigger_mode = "Level"
    /\ (c.vector = {}) <=> (c.delivery_mode \in {"SystemManagement", "Init"})
    /\ c.assert_mode = "Deassert" => c.destination.kind = "AllIncludingSelf"

\* Decoding of a (low, high) pair by the documented layout.
DecodeVector(cmd) == NonZeroU8New(ValueOf(get_bits(cmd.low, 0, 8)))

DecodeDeliveryMode(cmd) ==
    {m \in InterruptDeliveryMode : DocDeliveryModeCode(m) = ValueOf(get_bits(cmd.low, 8, 11))}

DecodeDestinationMode(cmd) == IF get_bit(cmd.low, 11) THEN "Logical" ELSE "Physical"

DecodeAssertMode(cmd) == IF get_bit(cmd.low, 14) THEN "Assert" ELSE "Deassert"

DecodeTriggerMode(cmd) == IF get_bit(cmd.low, 15) THEN "Level" ELSE "Edge"

DecodeDestination(cmd) ==
    LET code == ValueOf(get_bits(cmd.low, 18, 20))
    IN  CASE code = 0 -> Processor(cmd.high)
          [] code = 1 -> OnlySelf
          [] code = 2 -> AllIncludingSelf
          [] code = 3 -> AllExclusingSelf

\* The low half the documented layout prescribes for the arguments of new.
DocLow(c) ==
    UNION {
        IF c.vector = {} THEN {} ELSE U32From(CHOOSE v \in c.vector : TRUE),
        {i + 8 : i \in U32From(DocDeliveryModeCode(c.delivery_mode))},
        IF c.destination_mode = "Logical" THEN {11} ELSE {},
        IF c.assert_mode = "Assert" THEN {14} ELSE {},
        IF c.trigger_mode = "Level" THEN {15} ELSE {},
        {i + 18 : i \in U32From(DocShorthandCode(c.destination.kind))} }

Called(fn) == pc # "start" /\ call.fn = fn

\* ------------------------------------------------------------------------
\* Properties
\* ------------------------------------------------------------------------

\* C1: every argument tuple that satisfies the four construction rules makes
\* InterruptCommand::new return a value; it never panics on such a tuple.
C1_ValidNewReturns ==
    (Called("new") /\ ValidNewCall(call)) => (pc = "done" /\ result # {})

C1_Witness ==
    /\ Called("new") /\ ValidNewCall(call) /\ pc = "done"
    /\ call.assert_mode = "Deassert"

\* C2: for every valid argument tuple, decoding the returned (low, high) pair
\* by the documented layout recovers every argument exactly.
C2_RoundTrip ==
    (Called("new") /\ ValidNewCall(call)) =>
        \A cmd \in result :
            /\ DecodeVector(cmd) = call.vector
            /\ DecodeDeliveryMode(cmd) = {call.delivery_mode}
            /\ DecodeDestinationMode(cmd) = call.destination_mode
            /\ DecodeAssertMode(cmd) = call.assert_mode
            /\ DecodeTriggerMode(cmd) = call.trigger_mode
            /\ DecodeDestination(cmd) = call.destination

C2_Witness ==
    /\ Called("new") /\ ValidNewCall(call) /\ result # {}
    /\ call.vector = {255}
    /\ call.destination.kind = "Processor" /\ call.destination.id # {}
    /\ call.destination_mode = "Logical"
    /\ call.delivery_mode = "External"

\* C3: new with Deassert panics whenever the delivery mode is not Init and
\* whenever the trigger mode is Edge; no value is produced.
C3_DeassertNeedsInitAndLevel ==
    (/\ Called("new")
     /\ call.assert_mode = "Deassert"
     /\ (call.delivery_mode # "Init" \/ call.trigger_mode = "Edge"))
        => (pc = "panicked" /\ result = {})

C3_Witness ==
    /\ Called("new") /\ pc = "panicked"
    /\ call.assert_mode = "Deassert"
    /\ call.delivery_mode = "Fixed" /\ call.trigger_mode = "Level"
    /\ call.destination.kind = "AllIncludingSelf"
    /\ call.vector # {}

\* C4: new with a vector present and delivery mode SystemManagement or Init
\* panics, whatever the other arguments are.
C4_VectorWithSmiOrInitPanics ==
    (/\ Called("new")
     /\ call.vector # {}
     /\ call.delivery_mode \in {"SystemManagement", "Init"})
        => (pc = "panicked" /\ result = {})

C4_Witness ==
    /\ Called("new") /\ pc = "panicked"
    /\ call.vector # {}
    /\ call.delivery_mode = "SystemManagement"
    /\ call.assert_mode = "Assert"

\* The delivery modes other than SystemManagement and Init.
VectorModes == {"Fixed", "LowPriority", "NonMaskable", "StartUp", "External"}

C6_DeassertNeedsAllIncludingSelf ==
    /\ (/\ Called("new")
        /\ call.assert_mode = "Deassert"
        /\ call.destination.kind \in {"Processor", "OnlySelf", "AllExclusingSelf"})
           => (pc = "panicked" /\ result = {})
    /\ (/\ Called("new")
        /\ call.assert_mode = "Deassert"
        /\ call.destination.kind = "AllIncludingSelf"
        /\ call.vector = {} /\ call.delivery_mode = "Init"
        /\ call.trigger_mode = "Level")
           => (pc = "done" /\ result # {})

C6_Witness ==
    /\ Called("new") /\ pc = "panicked"
    /\ call.assert_mode = "Deassert"
    /\ call.destination.kind = "OnlySelf"
    /\ call.vector = {} /\ call.delivery_mode = "Init" /\ call.trigger_mode = "Level"

\* C7: the low half of every command new returns is exactly the documented
\* layout of its arguments; bits 12, 13, 16, 17 and 20-31 are zero.
C7_LowHalfLayout ==
    Called("new") =>
        \A cmd \in result :
            /\ cmd.low = DocLow(call)
            /\ cmd.low \cap ({12, 13, 16, 17} \cup (20..31)) = {}

C7_Witness ==
    /\ Called("new") /\ result # {}
    /\ call.delivery_mode = "StartUp"
    /\ call.vector = {170}
    /\ call.destination.kind = "AllExclusingSelf"
    /\ call.trigger_mode = "Level" /\ call.destination_mode = "Logical"

\* C8: the high half of every command new returns is the id for a Processor
\* destination and zero for the three shorthand destinations.
C8_HighHalf ==
    Called("new") =>
        \A cmd \in result :
            cmd.high = IF call.destination.kind = "Processor"
                       THEN call.destination.id ELSE {}

C8_Witness ==
    /\ Called("new") /\ result # {}
    /\ call.destination.kind = "Processor"
    /\ 31 \in call.destination.id /\ 0 \in call.destination.id

\* C9: new_init(apic_id) never panics and returns vector field 0,
\* delivery-mode field 0b101, destination-mode bit 0, assert bit 1, trigger
\* bit 1, shorthand bits 00 and high half apic_id.
C9_NewInit ==
    Called("new_init") =>
        /\ pc = "done" /\ result # {}
        /\ \A cmd \in result :
              /\ get_bits(cmd.low, 0, 8) = {}
              /\ ValueOf(get_bits(cmd.low, 8, 11)) = 5
              /\ ~get_bit(cmd.low, 11)
              /\ get_bit(cmd.low, 14)
              /\ get_bit(cmd.low, 15)
              /\ get_bits(cmd.low, 18, 20) = {}
              /\ cmd.high = call.apic_id

C9_Witness ==
    /\ Called("new_init") /\ pc = "done"
    /\ 31 \in call.apic_id

\* C10: new_sipi(v, apic_id) returns, for every v in 0..255, vector field v,
\* delivery-mode field 0b110, destination-mode bit 0, assert bit 1, trigger
\* bit 0, shorthand bits 00 and high half apic_id.
C10_NewSipi ==
    Called("new_sipi") =>
        /\ pc = "done" /\ result # {}
        /\ \A cmd \in result :
              /\ ValueOf(get_bits(cmd.low, 0, 8)) = call.vector
              /\ ValueOf(get_bits(cmd.low, 8, 11)) = 6
              /\ ~get_bit(cmd.low, 11)
              /\ get_bit(cmd.low, 14)
              /\ ~get_bit(cmd.low, 15)
              /\ get_bits(cmd.low, 18, 20) = {}
              /\ cmd.high = call.apic_id

C10_Witness ==
    /\ Called("new_sipi") /\ pc = "done"
    /\ call.vector = 0
    /\ 31 \in call.apic_id

\* ------------------------------------------------------------------------
\* local_vector.rs: LocalVector<K>
\* ------------------------------------------------------------------------

\* Number of bit positions from which the raw words read from hardware are built.
MaxLvBits == 6

\* Bit positions used to build the raw words: masked, vector bit 4 (vector 16),
\* the two timer-mode bits, a delivery-mode bit, delivery status, a reserved
\* bit and vector bit 0.
LvBitPositions == <<16, 4, 17, 18, 9, 12, 31, 0>>

\* The raw words an LVT entry may hold when it is read.
LvRaws == SUBSET {LvBitPositions[i] : i \in 1..MaxLvBits}

\* The u8 arguments given to set_vector: both sides of the reserved range and
\* the ends of the type.
LvVectors == (0..17) \cup {128, 255}

\* Mutant: LINT0 is given the Deliverable capability as well.
DeliverableWithLINT0 == {"CMCI", "PerformanceMonitors", "ThermalSensor", "LINT0"}

\* impl Deliverable for CMCI, PerformanceMonitors, ThermalSensor
Deliverable == {"CMCI", "PerformanceMonitors", "ThermalSensor"}

TimerMode == {"OneShot", "Periodic", "TscDeadline"}

\* impl From<TimerMode> for u32
U32FromTimerMode(value) ==
    CASE value = "OneShot" -> U32From(0)
      [] value = "Periodic" -> U32From(1)
      [] value = "TscDeadline" -> U32From(2)

\* Mutant: the catch-all arm of try_from yields TscDeadline instead of Err.
TimerModeTryFromLenient(value) ==
    CASE value = U32From(0) -> {"OneShot"}
      [] value = U32From(1) -> {"Periodic"}
      [] OTHER -> {"TscDeadline"}

\* impl TryFrom<u32> for TimerMode: Ok as a singleton, Err as the empty set.
TimerModeTryFrom(value) ==
    CASE value = U32From(0) -> {"OneShot"}
      [] value = U32From(1) -> {"Periodic"}
      [] value = U32From(2) -> {"TscDeadline"}
      [] OTHER -> {}

\* Outcome of a method of LocalVector: whether it panicked, the value it
\* returned (if any) and the LocalVector after the call.
LvPanic(self) == [panicked |-> TRUE, value |-> {}, lv |-> self]
LvReturn(self, value) == [panicked |-> FALSE, value |-> value, lv |-> self]

\* LocalVector::get_delivery_status
LocalVector_get_delivery_status(self) == LvReturn(self, {get_bit(self.raw, 12)})

\* LocalVector::get_masked
LocalVector_get_masked(self) == LvReturn(self, {get_bit(self.raw, 16)})

\* Mutant: set_masked writes bit 17, the low timer-mode bit.
LocalVector_set_masked_bit17(self, masked) ==
    LvReturn(LocalVector(self.kind, set_bit(self.raw, 17, masked)), {})

\* LocalVector::set_masked
LocalVector_set_masked(self, masked) ==
    LvReturn(LocalVector(self.kind, set_bit(self.raw, 16, masked)), {})

RECURSIVE WordValue(_)
\* The unsigned number a word holds (bits below 31 only).
WordValue(word) ==
    IF word = {} THEN 0
    ELSE LET i == CHOOSE j \in word : TRUE
         IN  Pow2(i) + WordValue(word \ {i})

\* LocalVector::get_vector; the debug_assert! is compiled in debug builds only.
LocalVector_get_vector(self, debug_build) ==
    LET vector == get_bits(self.raw, 0, 8)
    IN  IF debug_build /\ ~(WordValue(vector) > 15) THEN LvPanic(self)
        ELSE LvReturn(self, {WordValue(vector)})

\* Mutant: the assertion accepts vector 15.
LocalVector_set_vector_off_by_one(self, vector) ==
    IF ~(vector > 14) THEN LvPanic(self)
    ELSE LvReturn(LocalVector(self.kind, set_bits(self.raw, 0, 8, U32From(vector))), {})

\* LocalVector::set_vector
LocalVector_set_vector(self, vector) ==
    IF ~(vector > 15) THEN LvPanic(self)
    ELSE LvReturn(LocalVector(self.kind, set_bits(self.raw, 0, 8, U32From(vector))), {})

\* LocalVector<K: Deliverable>::set_delivery_mode
LocalVector_set_delivery_mode(self, mode) ==
    LvReturn(LocalVector(self.kind, set_bits(self.raw, 8, 11, U32FromDeliveryMode(mode))), {})

\* LocalVector<Timer>::get_mode: try_from(..).unwrap()
LocalVector_get_mode(self) ==
    LET mode == TimerModeTryFrom(get_bits(self.raw, 17, 19))
    IN  IF mode = {} THEN LvPanic(self) ELSE LvReturn(self, mode)

\* Mutant: the capability bit is not consulted.
LocalVector_set_mode_unchecked(self, mode, is_tsc_deadline_supported) ==
    LvReturn(LocalVector(self.kind, set_bits(self.raw, 17, 19, U32FromTimerMode(mode))), {})

\* LocalVector<Timer>::set_mode; is_tsc_deadline_supported is CPUID.1:ECX bit 24.
LocalVector_set_mode(self, mode, is_tsc_deadline_supported) ==
    IF ~(mode # "TscDeadline" \/ is_tsc_deadline_supported) THEN LvPanic(self)
    ELSE LvReturn(LocalVector(self.kind, set_bits(self.raw, 17, 19, U32FromTimerMode(mode))), {})

\* ------------------------------------------------------------------------
\* The state machine of a caller working on one LocalVector in memory
\* ------------------------------------------------------------------------

InitLv ==
    /\ pc = "start"
    /\ call = [fn |-> "none"]
    /\ result = {}
    /\ lv \in {LocalVector(k, r) : k \in Kind, r \in LvRaws}
    /\ tsc_deadline \in BOOLEAN
    /\ msr = [r \in RegisterIndices |-> {}]
    /\ trace = << >>
    /\ ncalls = 0
    /\ held = {}

\* The caller calls a method of its LocalVector and receives the outcome.
LvCall(c, outcome) ==
    /\ pc # "panicked"
    /\ call' = c
    /\ pc' = IF outcome.panicked THEN "panicked" ELSE "done"
    /\ result' = outcome.value
    /\ lv' = outcome.lv
    /\ UNCHANGED <<tsc_deadline, msr, trace, ncalls, held>>

LvGetDeliveryStatus ==
    LvCall([fn |-> "get_delivery_status"], LocalVector_get_delivery_status(lv))

LvGetMasked ==
    LvCall([fn |-> "get_masked"], LocalVector_get_masked(lv))

LvSetMasked ==
    \E masked \in BOOLEAN :
        LvCall([fn |-> "set_masked", masked |-> masked], LocalVector_set_masked(lv, masked))

LvGetVector ==
    \E debug_build \in BOOLEAN :
        LvCall([fn |-> "get_vector"], LocalVector_get_vector(lv, debug_build))

LvSetVector ==
    \E vector \in LvVectors :
        LvCall([fn |-> "set_vector", vector |-> vector], LocalVector_set_vector(lv, vector))

LvSetDeliveryMode ==
    /\ lv.kind \in Deliverable
    /\ \E mode \in InterruptDeliveryMode :
        LvCall([fn |-> "set_delivery_mode", mode |-> mode],
               LocalVector_set_delivery_mode(lv, mode))

LvGetMode ==
    /\ lv.kind = "Timer"
    /\ LvCall([fn |-> "get_mode"], LocalVector_get_mode(lv))

LvSetMode ==
    /\ lv.kind = "Timer"
    /\ \E mode \in TimerMode :
        LvCall([fn |-> "set_mode", mode |-> mode],
               LocalVector_set_mode(lv, mode, tsc_deadline))

NextLv ==
    \/ LvGetDeliveryStatus
    \/ LvGetMasked
    \/ LvSetMasked
    \/ LvGetVector
    \/ LvSetVector
    \/ LvSetDeliveryMode
    \/ LvGetMode
    \/ LvSetMode

SpecLv == InitLv /\ [][NextLv]_vars

\* ------------------------------------------------------------------------
\* Properties of LocalVector
\* ------------------------------------------------------------------------

\* C13: for every kind and every starting raw word, set_vector(v) panics for
\* v in 0..15 and leaves the value as it was; for v in 16..255 it returns, the
\* vector field holds v, and a get_vector that follows returns v.
C13_SetVector ==
    [][/\ (pc # "panicked" /\ call'.fn = "set_vector" /\ call'.vector <= 15)
            => (pc' = "panicked" /\ lv' = lv)
       /\ (pc # "panicked" /\ call'.fn = "set_vector" /\ call'.vector >= 16)
            => (pc' = "done" /\ get_bits(lv'.raw, 0, 8) = U32From(call'.vector))
       /\ (pc = "done" /\ call.fn = "set_vector" /\ call'.fn = "get_vector")
            => (pc' = "done" /\ result' = {call.vector})
      ]_vars

C13_Witness ==
    /\ pc = "done" /\ call.fn = "get_vector" /\ result = {255}
    /\ lv.kind = "LINT1"

\* C14: set_mode(TscDeadline) panics when CPUID.1:ECX bit 24 is absent and
\* leaves the value as it was; when the bit is present it returns and get_mode
\* then returns TscDeadline.  set_mode(OneShot) and set_mode(Periodic) return
\* whatever the bit is; bits 17-18 then hold 00 / 01 (10 for TscDeadline) and
\* get_mode returns the mode set.
C14_SetMode ==
    [][/\ (/\ pc # "panicked" /\ call'.fn = "set_mode"
           /\ call'.mode = "TscDeadline" /\ ~tsc_deadline)
            => (pc' = "panicked" /\ lv' = lv)
       /\ (/\ pc # "panicked" /\ call'.fn = "set_mode"
           /\ (call'.mode # "TscDeadline" \/ tsc_deadline))
            => /\ pc' = "done"
               /\ get_bits(lv'.raw, 17, 19) =
                    CASE call'.mode = "OneShot" -> {}
                      [] call'.mode = "Periodic" -> {0}
                      [] call'.mode = "TscDeadline" -> {1}
       /\ (pc = "done" /\ call.fn = "set_mode" /\ call'.fn = "get_mode")
            => (pc' = "done" /\ result' = {call.mode})
      ]_vars

C14_Witness ==
    /\ pc = "panicked" /\ call.fn = "set_mode" /\ call.mode = "TscDeadline"
    /\ ~tsc_deadline
    /\ get_bits(lv.raw, 17, 19) = {0}

\* C20: no operation on a LocalVector of kind Timer, LINT0, LINT1 or Error
\* changes bits 8-10 of its raw word, whatever sequence of setters is called.
C20_DeliveryModeOnlyDeliverable ==
    [][lv.kind \in {"Timer", "LINT0", "LINT1", "Error"}
            => get_bits(lv'.raw, 8, 11) = get_bits(lv.raw, 8, 11)]_vars

C20_Witness ==
    /\ pc = "done" /\ call.fn = "set_vector" /\ call.vector = 255
    /\ lv.kind = "LINT0"
    /\ get_bits(lv.raw, 8, 11) = {1}

\* The bits of the raw word outside lo..hi-1 are the same before and after.
OnlyTouches(lo, hi) == lv'.raw \ (lo..(hi - 1)) = lv.raw \ (lo..(hi - 1))

\* Documented timer-mode codes, bits 17-18.
DocTimerModeCode(mode) ==
    CASE mode = "OneShot" -> 0
      [] mode = "Periodic" -> 1
      [] mode = "TscDeadline" -> 2

\* Every successful setter changes its own field only and leaves in it the
\* value it was given.
SettersTouchOwnField ==
    /\ call'.fn = "set_masked" =>
          /\ pc' = "done" /\ OnlyTouches(16, 17)
          /\ get_bit(lv'.raw, 16) = call'.masked
    /\ (call'.fn = "set_vector" /\ pc' = "done") =>
          /\ OnlyTouches(0, 8)
          /\ ValueOf(get_bits(lv'.raw, 0, 8)) = call'.vector
    /\ call'.fn = "set_delivery_mode" =>
          /\ pc' = "done" /\ OnlyTouches(8, 11)
          /\ ValueOf(get_bits(lv'.raw, 8, 11)) = DocDeliveryModeCode(call'.mode)
    /\ (call'.fn = "set_mode" /\ pc' = "done") =>
          /\ OnlyTouches(17, 19)
          /\ ValueOf(get_bits(lv'.raw, 17, 19)) = DocTimerModeCode(call'.mode)

\* C21 as stated: each setter changes only its own field (bit 16, bits 0-7,
\* bits 8-10, bits 17-18), so bit 12 and the reserved bits keep the value read
\* from hardware; and each getter returns the value its field holds, which is
\* the last value set or, if never set, the value read from hardware.
C21_SettersIndependent ==
    [][pc # "panicked" =>
          /\ SettersTouchOwnField
          /\ call'.fn = "get_masked" =>
                (pc' = "done" /\ lv' = lv /\ result' = {get_bit(lv.raw, 16)})
          /\ call'.fn = "get_vector" =>
                (pc' = "done" /\ lv' = lv /\ result' = {ValueOf(get_bits(lv.raw, 0, 8))})
          /\ call'.fn = "get_mode" =>
                /\ pc' = "done" /\ lv' = lv
                /\ \E mode \in TimerMode :
                      /\ result' = {mode}
                      /\ DocTimerModeCode(mode) = ValueOf(get_bits(lv.raw, 17, 19))
      ]_vars

\* C21, amended: the setters are as stated; get_masked always returns its
\* bit; get_vector and get_mode, when they return, return the value their
\* field holds, but get_vector may be fatal when the vector field is 0..15
\* (debug builds) and get_mode is fatal when bits 17-18 are 0b11; neither is
\* fatal otherwise, and a fatal getter leaves the value as it was.
C21_SettersIndependentGettersPartial ==
    [][pc # "panicked" =>
          /\ SettersTouchOwnField
          /\ call'.fn = "get_masked" =>
                (pc' = "done" /\ lv' = lv /\ result' = {get_bit(lv.raw, 16)})
          /\ call'.fn = "get_vector" =>
                /\ lv' = lv
                /\ pc' = "done" => result' = {ValueOf(get_bits(lv.raw, 0, 8))}
                /\ pc' = "panicked" => ValueOf(get_bits(lv.raw, 0, 8)) <= 15
          /\ call'.fn = "get_mode" =>
                /\ lv' = lv
                /\ pc' = "done" =>
                      \E mode \in TimerMode :
                          /\ result' = {mode}
                          /\ DocTimerModeCode(mode) = ValueOf(get_bits(lv.raw, 17, 19))
                /\ pc' = "panicked" <=> get_bits(lv.raw, 17, 19) = {0, 1}
      ]_vars

C21_Witness ==
    /\ pc = "done" /\ call.fn = "set_mode" /\ call.mode = "Periodic"
    /\ lv.raw = {4, 9, 12, 16, 17}

\* ------------------------------------------------------------------------
\* mod.rs: the flag sets
\* ------------------------------------------------------------------------

\* bitflags! struct ErrorStatus: u32
ErrorStatusFlags ==
    [SEND_CHECKSUM_ERROR |-> {0}, RECEIVE_CHECKSUM_ERROR |-> {1},
     SEND_ACCEPT_ERROR |-> {2}, RECEIVE_ACCEPT_ERROR |-> {3},
     REDIRECTABLE_IPI |-> {4}, SENT_ILLEGAL_VECTOR |-> {5},
     RECEIVED_ILLEGAL_VECTOR |-> {6}, ILLEGAL_REGISTER_ADDRESS |-> {7}]

\* Mutant: the divisors are encoded linearly.
TimerDivideConfigurationFlagsLinear ==
    [DIVIDE_1 |-> U32From(0), DIVIDE_2 |-> U32From(1), DIVIDE_4 |-> U32From(2),
     DIVIDE_8 |-> U32From(3), DIVIDE_16 |-> U32From(8), DIVIDE_32 |-> U32From(9),
     DIVIDE_64 |-> U32From(10), DIVIDE_128 |-> U32From(11)]

\* bitflags! struct TimerDivideConfiguration: u32
TimerDivideConfigurationFlags ==
    [DIVIDE_1 |-> U32From(11), DIVIDE_2 |-> U32From(0), DIVIDE_4 |-> U32From(1),
     DIVIDE_8 |-> U32From(2), DIVIDE_16 |-> U32From(3), DIVIDE_32 |-> U32From(8),
     DIVIDE_64 |-> U32From(9), DIVIDE_128 |-> U32From(10)]

\* bitflags: Flags::all().bits(), the union of the bits of every named flag.
AllBits(flags) == UNION {flags[n] : n \in DOMAIN flags}

\* Mutant: from_bits_truncate keeps every bit of the raw word.
from_bits_untruncated(flags, raw) == raw

\* bitflags: Flags::from_bits_truncate(raw)
from_bits_truncate(flags, raw) == raw \cap AllBits(flags)

\* bitflags: value.contains(flag)
contains(value, flag) == flag \subseteq value

\* bitflags: value.union(other), value | other
union(value, other) == value \cup other

\* ------------------------------------------------------------------------
\* x2.rs: register access
\* ------------------------------------------------------------------------

\* Hardware transactions, as recorded in trace.
Rd(register) == [op |-> "rdmsr", reg |-> register]
Wr(register, value) == [op |-> "wrmsr", reg |-> register, value |-> value]
Fence == [op |-> "mfence"]

\* value >> 32 and value << 32 on 64-bit words
ShiftRight32(value) == {i - 32 : i \in {j \in value : j >= 32}}
ShiftLeft32(value) == {i + 32 : i \in {j \in value : j < 32}}

\* rdmsr: EDX:EAX, combined by read_register as (value_high << 32) | value_low
read_register(m, register) ==
    LET value_low == {i \in m[register] : i < 32}
        value_high == ShiftRight32(m[register])
    IN  ShiftLeft32(value_high) \cup value_low

\* The 64-bit value wrmsr receives in EDX:EAX from write_register:
\* value_low = value & 0xFFFF, value_high = value >> 32.
WrittenValue(value) ==
    LET value_low == value \cap (0..15)
        value_high == ShiftRight32(value)
    IN  ShiftLeft32(value_high) \cup value_low

\* write_register: the register holds what wrmsr received.
write_register(m, register, value) ==
    [m EXCEPT ![register] = WrittenValue(value)]

\* u32::try_from(u64) succeeds when no bit above 31 is set.
FitsU32(value) == \A i \in value : i < 32

\* Outcome of an x2 operation: whether it panicked, the value it returned (if
\* any), the registers after it and the transactions it issued.
X2Panic(m, t) == [panicked |-> TRUE, value |-> {}, msr |-> m, trace |-> t]
X2Return(m, t, value) == [panicked |-> FALSE, value |-> value, msr |-> m, trace |-> t]

\* u32::try_from(read_register(register)).unwrap()
ReadU32(m, register) ==
    LET raw == read_register(m, register)
    IN  IF FitsU32(raw) THEN X2Return(m, <<Rd(register)>>, {raw})
        ELSE X2Panic(m, <<Rd(register)>>)

\* write_register(register, value) as the whole body of an operation
WriteOnly(m, register, value) ==
    X2Return(write_register(m, register, value),
             <<Wr(register, WrittenValue(value))>>, {})

\* ------------------------------------------------------------------------
\* x2.rs: impl Mode for x2
\* ------------------------------------------------------------------------

x2_get_id(m) == ReadU32(m, Register.ID)

x2_get_version(m) == ReadU32(m, Register.VERSION)

x2_get_error_status(m) ==
    LET r == ReadU32(m, Register.ERROR_STATUS)
    IN  IF r.panicked THEN r
        ELSE X2Return(m, r.trace,
                      {from_bits_truncate(ErrorStatusFlags, raw) : raw \in r.value})

\* Mutant: clear_error_status writes all ones.
x2_clear_error_status_ones(m) == WriteOnly(m, Register.ERROR_STATUS, 0..31)

x2_clear_error_status(m) == WriteOnly(m, Register.ERROR_STATUS, {})

x2_get_timer_initial_count(m) == ReadU32(m, Register.TIMER_INITIAL_COUNT)

x2_set_timer_initial_count(m, value) == WriteOnly(m, Register.TIMER_INITIAL_COUNT, value)

x2_get_timer_current_count(m) == ReadU32(m, Register.TIMER_CURRENT_COUNT)

x2_get_timer_divide_configuration(m) ==
    LET r == ReadU32(m, Register.TIMER_DIVIDE_CONFIGURATION)
    IN  IF r.panicked THEN r
        ELSE X2Return(m, r.trace,
                      {from_bits_truncate(TimerDivideConfigurationFlags, raw) : raw \in r.value})

x2_set_timer_divide_configuration(m, value) ==
    WriteOnly(m, Register.TIMER_DIVIDE_CONFIGURATION, value)

\* Mutant: the LowPriority check is missing.
x2_send_interrupt_command_unchecked(m, interrupt_command) ==
    LET high == interrupt_command.high
        low == interrupt_command.low
    IN  WriteOnly(m, Register.INTERRUPT_COMMAND, ShiftLeft32(high) \cup low)

x2_send_interrupt_command(m, interrupt_command) ==
    LET high == interrupt_command.high
        low == interrupt_command.low
    IN  IF ~(get_bits(low, 8, 11) # U32From(1)) THEN X2Panic(m, << >>)
        ELSE WriteOnly(m, Register.INTERRUPT_COMMAND, ShiftLeft32(high) \cup low)

\* get_spurious_vector and the three get_spurious_* flags (bits 8, 9, 12)
x2_get_spurious_vector(m) ==
    X2Return(m, <<Rd(Register.SPURIOUS_VECTOR)>>,
             {WordValue(get_bits(read_register(m, Register.SPURIOUS_VECTOR), 0, 8))})

x2_get_spurious_bit(m, bit) ==
    X2Return(m, <<Rd(Register.SPURIOUS_VECTOR)>>,
             {get_bit(read_register(m, Register.SPURIOUS_VECTOR), bit)})

\* set_spurious_vector: read, set_bits(..8, vector), write
x2_set_spurious_vector(m, vector) ==
    LET value == set_bits(read_register(m, Register.SPURIOUS_VECTOR), 0, 8, U32From(vector))
    IN  X2Return(write_register(m, Register.SPURIOUS_VECTOR, value),
                 <<Rd(Register.SPURIOUS_VECTOR),
                   Wr(Register.SPURIOUS_VECTOR, WrittenValue(value))>>, {})

\* the three set_spurious_* flags: read, set_bit(bit, value), write
x2_set_spurious_bit(m, bit, flag) ==
    LET value == set_bit(read_register(m, Register.SPURIOUS_VECTOR), bit, flag)
    IN  X2Return(write_register(m, Register.SPURIOUS_VECTOR, value),
                 <<Rd(Register.SPURIOUS_VECTOR),
                   Wr(Register.SPURIOUS_VECTOR, WrittenValue(value))>>, {})

\* The register each get_*_vector / set_*_vector pair names.
VectorRegister(kind) ==
    CASE kind = "Timer" -> Register.TIMER_VECTOR
      [] kind = "CMCI" -> Register.CMCI_VECTOR
      [] kind = "LINT0" -> Register.LINT0_VECTOR
      [] kind = "LINT1" -> Register.LINT1_VECTOR
      [] kind = "Error" -> Register.ERROR_VECTOR
      [] kind = "PerformanceMonitors" -> Register.PERFORMANCE_MONITORS_VECTOR
      [] kind = "ThermalSensor" -> Register.THERMAL_SENSOR_VECTOR

\* get_timer_vector, get_cmci_vector, ..., get_thermal_sensor_vector
x2_get_vector(m, kind) ==
    LET r == ReadU32(m, VectorRegister(kind))
    IN  IF r.panicked THEN r
        ELSE X2Return(m, r.trace, {LocalVector(kind, raw) : raw \in r.value})

\* set_timer_vector: get_mode, the mfence for TscDeadline, then the write
x2_set_timer_vector(m, value) ==
    LET mode == LocalVector_get_mode(value)
        fence == IF mode.value = {"TscDeadline"} THEN <<Fence>> ELSE << >>
    IN  IF mode.panicked THEN X2Panic(m, << >>)
        ELSE X2Return(write_register(m, Register.TIMER_VECTOR, value.raw),
                      fence \o <<Wr(Register.TIMER_VECTOR, WrittenValue(value.raw))>>, {})

\* set_cmci_vector, set_lint0_vector, ..., set_thermal_sensor_vector
x2_set_vector(m, value) ==
    IF value.kind = "Timer" THEN x2_set_timer_vector(m, value)
    ELSE WriteOnly(m, VectorRegister(value.kind), value.raw)

\* Mutant: end_of_interrrupt writes one.
x2_end_of_interrrupt_one(m) == WriteOnly(m, Register.END_OF_INTERRUPT, {0})

x2_end_of_interrrupt(m) == WriteOnly(m, Register.END_OF_INTERRUPT, {})

\* ------------------------------------------------------------------------
\* The state machine of a caller driving the x2 backend
\* ------------------------------------------------------------------------

\* Number of x2 operations a caller issues in one run.
MaxCalls == 2

\* Number of bit positions from which the initial error-status word is built.
MaxEsrBits == 2

\* Bit positions of the error-status samples: a flag, a reserved bit, the
\* lowest and highest flag, the top bit.
EsrBitPositions == <<5, 8, 0, 7, 31>>

\* The words the error-status register may hold at the start.
EsrRaws == SUBSET {EsrBitPositions[i] : i \in 1..MaxEsrBits}

\* The commands handed to send_interrupt_command: every value InterruptCommand::new
\* returns for these arguments.
X2Commands ==
    UNION {InterruptCommand_new(vector, destination, delivery_mode, "Physical",
                                "Level", "Assert").value :
              vector \in {{}, {200}},
              destination \in {Processor({0, 31}), AllExclusingSelf},
              delivery_mode \in {"LowPriority", "Init", "StartUp"}}

\* The LocalVector values handed to set_*_vector: vector 48, unmasked or masked,
\* and for the timer also the Periodic and TscDeadline modes.
X2LocalVectors ==
    {LocalVector(k, r) : k \in Kind, r \in {{4, 5}, {4, 5, 16}}}
        \cup {LocalVector("Timer", r) : r \in {{4, 5, 17}, {4, 5, 16, 18}}}

\* The local vector table entries as the hardware resets them: masked.
LvtRegisters ==
    {Register.TIMER_VECTOR, Register.THERMAL_SENSOR_VECTOR,
     Register.PERFORMANCE_MONITORS_VECTOR, Register.LINT0_VECTOR,
     Register.LINT1_VECTOR, Register.ERROR_VECTOR}

InitX2 ==
    /\ pc = "start"
    /\ call = [fn |-> "none"]
    /\ result = {}
    /\ lv = LocalVector("Timer", {})
    /\ tsc_deadline = FALSE
    /\ \E esr \in EsrRaws :
          msr = [r \in RegisterIndices |->
                    IF r = Register.ERROR_STATUS THEN esr
                    ELSE IF r \in LvtRegisters THEN {16}
                    ELSE {}]
    /\ trace = << >>
    /\ ncalls = 0
    /\ held = {}

\* The caller issues an x2 operation and receives the outcome; an ErrorStatus
\* it receives is kept in held.
X2Call(c, outcome) ==
    /\ pc # "panicked"
    /\ ncalls < MaxCalls
    /\ call' = c
    /\ pc' = IF outcome.panicked THEN "panicked" ELSE "done"
    /\ result' = outcome.value
    /\ msr' = outcome.msr
    /\ trace' = outcome.trace
    /\ ncalls' = ncalls + 1
    /\ held' = IF c.fn = "get_error_status" /\ ~outcome.panicked THEN outcome.value ELSE held
    /\ UNCHANGED <<lv, tsc_deadline>>

GetId == X2Call([fn |-> "get_id"], x2_get_id(msr))

GetVersion == X2Call([fn |-> "get_version"], x2_get_version(msr))

GetErrorStatus == X2Call([fn |-> "get_error_status"], x2_get_error_status(msr))

ClearErrorStatus == X2Call([fn |-> "clear_error_status"], x2_clear_error_status(msr))

GetTimerInitialCount ==
    X2Call([fn |-> "get_timer_initial_count"], x2_get_timer_initial_count(msr))

SetTimerInitialCount ==
    \E value \in {{}, {0, 16, 31}} :
        X2Call([fn |-> "set_timer_initial_count", value |-> value],
               x2_set_timer_initial_count(msr, value))

GetTimerCurrentCount ==
    X2Call([fn |-> "get_timer_current_count"], x2_get_timer_current_count(msr))

GetTimerDivideConfiguration ==
    X2Call([fn |-> "get_timer_divide_configuration"],
           x2_get_timer_divide_configuration(msr))

SetTimerDivideConfiguration ==
    \E name \in DOMAIN TimerDivideConfigurationFlags :
        X2Call([fn |-> "set_timer_divide_configuration", name |-> name,
                value |-> TimerDivideConfigurationFlags[name]],
               x2_set_timer_divide_configuration(msr, TimerDivideConfigurationFlags[name]))

SendInterruptCommand ==
    \E interrupt_command \in X2Commands :
        X2Call([fn |-> "send_interrupt_command", interrupt_command |-> interrupt_command],
               x2_send_interrupt_command(msr, interrupt_command))

GetSpuriousVector == X2Call([fn |-> "get_spurious_vector"], x2_get_spurious_vector(msr))

GetSpuriousBit ==
    \E bit \in {8, 9, 12} :
        X2Call([fn |-> "get_spurious_bit", bit |-> bit], x2_get_spurious_bit(msr, bit))

SetSpuriousVector ==
    \E vector \in {255} :
        X2Call([fn |-> "set_spurious_vector", vector |-> vector],
               x2_set_spurious_vector(msr, vector))

SetSpuriousBit ==
    \E bit \in {8, 9, 12} :
        X2Call([fn |-> "set_spurious_bit", bit |-> bit, value |-> TRUE],
               x2_set_spurious_bit(msr, bit, TRUE))

GetVector ==
    \E kind \in Kind :
        X2Call([fn |-> "get_vector", kind |-> kind], x2_get_vector(msr, kind))

SetVector ==
    \E value \in X2LocalVectors :
        X2Call([fn |-> "set_vector", kind |-> value.kind, local_vector |-> value],
               x2_set_vector(msr, value))

EndOfInterrupt == X2Call([fn |-> "end_of_interrrupt"], x2_end_of_interrrupt(msr))

NextX2 ==
    \/ GetId
    \/ GetVersion
    \/ GetErrorStatus
    \/ ClearErrorStatus
    \/ GetTimerInitialCount
    \/ SetTimerInitialCount
    \/ GetTimerCurrentCount
    \/ GetTimerDivideConfiguration
    \/ SetTimerDivideConfiguration
    \/ SendInterruptCommand
    \/ GetSpuriousVector
    \/ GetSpuriousBit
    \/ SetSpuriousVector
    \/ SetSpuriousBit
    \/ GetVector
    \/ SetVector
    \/ EndOfInterrupt

SpecX2 == InitX2 /\ [][NextX2]_vars

\* ------------------------------------------------------------------------
\* Properties of the x2 backend
\* ------------------------------------------------------------------------

\* A step in which the caller issues the x2 operation fn.
Issues(fn) == pc # "panicked" /\ ncalls' = ncalls + 1 /\ call'.fn = fn

\* The positions of trace t that are writes to the register with index reg.
WritesTo(t, reg) == {i \in 1..Len(t) : t[i].op = "wrmsr" /\ t[i].reg = reg}

\* C11: x2 send_interrupt_command panics for every command whose low-half bits
\* 8-10 are 0b001 and then issues no MSR write (the registers are unchanged);
\* for every other delivery-mode code it returns and writes MSR 0x830.
C11_SendRejectsLowPriority ==
    [][Issues("send_interrupt_command") =>
          IF get_bits(call'.interrupt_command.low, 8, 11) = {0}
          THEN pc' = "panicked" /\ msr' = msr /\ trace' = << >>
          ELSE pc' = "done" /\ WritesTo(trace', 2096) # {}
      ]_vars

C11_Witness ==
    /\ pc = "panicked" /\ call.fn = "send_interrupt_command"
    /\ get_bits(call.interrupt_command.low, 8, 11) = {0}
    /\ get_bits(call.interrupt_command.low, 18, 20) = {0, 1}

\* C12: x2 set_timer_vector with a TscDeadline value issues the write to MSR
\* 0x832 and then, with nothing in between, the fence; with OneShot or
\* Periodic it issues exactly one write to 0x832.
C12_FenceAfterWrite ==
    (pc = "done" /\ call.fn = "set_vector" /\ call.kind = "Timer") =>
        IF get_bits(call.local_vector.raw, 17, 19) = {1}
        THEN \E i \in WritesTo(trace, 2098) :
                i + 1 \in 1..Len(trace) /\ trace[i + 1].op = "mfence"
        ELSE Cardinality(WritesTo(trace, 2098)) = 1

\* Documented bit patterns of the divisors.
DocDividePattern ==
    [DIVIDE_1 |-> 11, DIVIDE_2 |-> 0, DIVIDE_4 |-> 1, DIVIDE_8 |-> 2,
     DIVIDE_16 |-> 3, DIVIDE_32 |-> 8, DIVIDE_64 |-> 9, DIVIDE_128 |-> 10]

\* C15: each named divisor has its documented bit pattern, the eight patterns
\* are pairwise distinct, and a divisor written by
\* set_timer_divide_configuration is read back with the same bits by
\* get_timer_divide_configuration (from_bits_truncate).
C15_TimerDivideRoundTrip ==
    [][/\ Issues("set_timer_divide_configuration") =>
            /\ call'.value = U32From(DocDividePattern[call'.name])
            /\ \A other \in DOMAIN TimerDivideConfigurationFlags :
                  other # call'.name =>
                      TimerDivideConfigurationFlags[other] # call'.value
            /\ from_bits_truncate(TimerDivideConfigurationFlags, call'.value) = call'.value
       /\ (/\ pc = "done" /\ call.fn = "set_timer_divide_configuration"
           /\ Issues("get_timer_divide_configuration"))
            => (pc' = "done" /\ result' = {call.value})
      ]_vars

C15_Witness ==
    /\ pc = "done" /\ call.fn = "get_timer_divide_configuration"
    /\ result = {{0, 1, 3}}

\* C16: get_error_status reports the flag of bit i (i in 0..7) exactly when
\* bit i of the register word is set, bits 8-31 influence no flag, and
\* SENT_ILLEGAL_VECTOR is the flag of bit 5.
C16_ErrorStatusDecoding ==
    (pc # "start" /\ call.fn = "get_error_status") =>
        /\ pc = "done"
        /\ result = {msr[2088] \cap (0..7)}
        /\ ErrorStatusFlags.SENT_ILLEGAL_VECTOR = {5}
        /\ \A i \in 0..7 :
              \E name \in DOMAIN ErrorStatusFlags :
                  /\ ErrorStatusFlags[name] = {i}
                  /\ \A r \in result :
                        contains(r, ErrorStatusFlags[name]) <=> i \in msr[2088]

C16_Witness ==
    /\ pc = "done" /\ call.fn = "get_error_status"
    /\ msr[2088] = {5, 8}
    /\ result = {{5}}

\* C17: every x2 set_*_vector writes to its register a value whose low 32 bits
\* are the raw word of the LocalVector, and a get_*_vector of the same entry
\* issued next returns a value with the same masked bit, vector and timer mode.
C17_LvtWriteReachesRegister ==
    [][/\ (Issues("set_vector") /\ pc' = "done") =>
            get_bits(msr'[VectorRegister(call'.kind)], 0, 32) = call'.local_vector.raw
       /\ (/\ pc = "done" /\ call.fn = "set_vector"
           /\ Issues("get_vector") /\ call'.kind = call.kind)
            => /\ pc' = "done"
               /\ \A v \in result' :
                     /\ get_bit(v.raw, 16) = get_bit(call.local_vector.raw, 16)
                     /\ get_bits(v.raw, 0, 8) = get_bits(call.local_vector.raw, 0, 8)
                     /\ get_bits(v.raw, 17, 19) = get_bits(call.local_vector.raw, 17, 19)
      ]_vars

\* C18: clear_error_status issues exactly one transaction, a write of zero to
\* MSR 0x828, and returns nothing; an ErrorStatus the caller obtained before
\* the clear is unchanged by it; a get_error_status issued after the clear
\* observes the cleared register; no other operation writes MSR 0x828.
C18_ClearErrorStatus ==
    [][/\ Issues("clear_error_status") =>
            /\ pc' = "done"
            /\ trace' = <<[op |-> "wrmsr", reg |-> 2088, value |-> {}]>>
            /\ result' = {}
            /\ held' = held
       /\ (pc = "done" /\ call.fn = "clear_error_status" /\ Issues("get_error_status"))
            => (pc' = "done" /\ result' = {{}} /\ held' = {{}})
       /\ (ncalls' = ncalls + 1 /\ call'.fn # "clear_error_status")
            => (WritesTo(trace', 2088) = {} /\ msr'[2088] = msr[2088])
      ]_vars

C18_Witness ==
    /\ pc = "done" /\ call.fn = "clear_error_status"
    /\ held = {{5}}
    /\ msr[2088] = {}

\* C19: x2 end_of_interrrupt never panics, issues exactly one transaction, a
\* write of zero to MSR 0x80B, reads nothing, returns nothing and leaves every
\* other register as it was.
C19_EndOfInterrupt ==
    [][Issues("end_of_interrrupt") =>
          /\ pc' = "done"
          /\ trace' = <<[op |-> "wrmsr", reg |-> 2059, value |-> {}]>>
          /\ result' = {}
          /\ msr'[2059] = {}
          /\ \A r \in DOMAIN msr : r # 2059 => msr'[r] = msr[r]
      ]_vars

C19_Witness ==
    /\ pc = "done" /\ call.fn = "end_of_interrrupt"
    /\ ncalls = 2
    /\ msr[2088] = {5, 8}
    /\ msr[2098] = {4, 5}

\* C22: for every command send_interrupt_command accepts, the value delivered
\* to MSR 0x830 has the command's high half in bits 32-63 and its low half in
\* bits 0-31 (the shorthand bits 18-19 included), and the command is
\* transmitted by exactly one MSR write.
C22_IcrWriteBitForBit ==
    [][(Issues("send_interrupt_command") /\ pc' = "done") =>
          /\ Cardinality({i \in 1..Len(trace') : trace'[i].op = "wrmsr"}) = 1
          /\ \E i \in WritesTo(trace', 2096) :
                /\ ShiftRight32(trace'[i].value) = call'.interrupt_command.high
                /\ {b \in trace'[i].value : b < 32} = call'.interrupt_command.low
          /\ ShiftRight32(msr'[2096]) = call'.interrupt_command.high
          /\ {b \in msr'[2096] : b < 32} = call'.interrupt_command.low
      ]_vars

\* C23: every MSR index the x2 backend reads or writes lies in 0x800..0x8FF
\* (2048..2303), the indices of the registers are pairwise distinct, id is
\* 0x802, the ICR 0x830 and the timer LVT 0x832, and get_cmci_vector and
\* set_cmci_vector access 0x82F (2095).
C23_MsrIndicesInRange ==
    /\ \A i \in 1..Len(trace) :
          trace[i].op \in {"rdmsr", "wrmsr"} => trace[i].reg \in 2048..2303
    /\ Cardinality(RegisterIndices) = Cardinality(DOMAIN Register)
    /\ Register.ID = 2050
    /\ Register.INTERRUPT_COMMAND = 2096
    /\ Register.TIMER_VECTOR = 2098
    /\ (call.fn \in {"get_vector", "set_vector"} /\ call.kind = "CMCI") =>
          \A i \in 1..Len(trace) : trace[i].reg = 2095

\* ------------------------------------------------------------------------
\* The state machine of a caller holding the timer entry it read from hardware
\* ------------------------------------------------------------------------

InitTimer ==
    /\ pc = "start"
    /\ call = [fn |-> "none"]
    /\ result = {}
    /\ lv \in {LocalVector("Timer", r) : r \in LvRaws}
    /\ tsc_deadline \in BOOLEAN
    /\ msr = [r \in RegisterIndices |-> IF r \in LvtRegisters THEN {16} ELSE {}]
    /\ trace = << >>
    /\ ncalls = 0
    /\ held = {}

\* The caller hands the entry it holds to x2 set_timer_vector.
SetTimerVectorHeld ==
    X2Call([fn |-> "set_vector", kind |-> "Timer", local_vector |-> lv],
           x2_set_timer_vector(msr, lv))

NextTimer ==
    \/ LvGetMode
    \/ LvSetMode
    \/ SetTimerVectorHeld

SpecTimer == InitTimer /\ [][NextTimer]_vars

\* The number held in bits 17-18 of a raw word.
ModeBits(raw) == ValueOf(get_bits(raw, 17, 19))

\* C24: get_mode returns OneShot, Periodic or TscDeadline when bits 17-18 are
\* 00, 01 or 10 and panics when they are 11; set_mode never produces 11 from
\* another pattern; and x2 set_timer_vector with a value whose bits 17-18 are
\* 11 panics without a write to the timer LVT MSR, the registers unchanged.
C24_GetModeFatalOnReserved ==
    [][pc # "panicked" =>
          /\ call'.fn = "get_mode" =>
                /\ ModeBits(lv.raw) = 0 => (pc' = "done" /\ result' = {"OneShot"})
                /\ ModeBits(lv.raw) = 1 => (pc' = "done" /\ result' = {"Periodic"})
                /\ ModeBits(lv.raw) = 2 => (pc' = "done" /\ result' = {"TscDeadline"})
                /\ ModeBits(lv.raw) = 3 => pc' = "panicked"
          /\ (call'.fn = "set_mode" /\ pc' = "done") => ModeBits(lv'.raw) # 3
          /\ (call'.fn = "set_vector" /\ ncalls' = ncalls + 1) =>
                IF ModeBits(call'.local_vector.raw) = 3
                THEN /\ pc' = "panicked"
                     /\ msr' = msr
                     /\ WritesTo(trace', 2098) = {}
                ELSE pc' = "done" /\ WritesTo(trace', 2098) # {}
      ]_vars

C24_Witness ==
    /\ pc = "panicked" /\ call.fn = "set_vector" /\ call.kind = "Timer"
    /\ call.local_vector.raw = {4, 16, 17, 18}
    /\ msr[2098] = {16}
    /\ trace = << >>

\* ------------------------------------------------------------------------
\* The state machine of a caller combining and testing named divisors
\* ------------------------------------------------------------------------

\* The names of the divisors.
Divisors == DOMAIN TimerDivideConfigurationFlags

DivisorCalls ==
    {[fn |-> f, self |-> d, other |-> e] :
        f \in {"contains", "union"}, d \in Divisors, e \in Divisors}

InitDivisors ==
    /\ pc = "start"
    /\ call \in DivisorCalls
    /\ result = {}
    /\ NoApic

Contains ==
    /\ pc = "start"
    /\ call.fn = "contains"
    /\ Finish(Return(contains(TimerDivideConfigurationFlags[call.self],
                              TimerDivideConfigurationFlags[call.other])))

Union ==
    /\ pc = "start"
    /\ call.fn = "union"
    /\ Finish(Return(union(TimerDivideConfigurationFlags[call.self],
                           TimerDivideConfigurationFlags[call.other])))

NextDivisors ==
    \/ Contains
    \/ Union

SpecDivisors == InitDivisors /\ [][NextDivisors]_vars

\* C25: the value of a named divisor d contains a named divisor e only when
\* e = d, and the union of two different named divisors is never the value of
\* a third named divisor.
C25_MutuallyExclusive ==
    pc = "done" =>
        /\ (call.fn = "contains" /\ result = {TRUE}) => call.other = call.self
        /\ (call.fn = "union" /\ call.self # call.other) =>
              \A third \in Divisors \ {call.self, call.other} :
                  result # {TimerDivideConfigurationFlags[third]}

====
